---- MODULE Spec2Model ----
(***************************************************************************)
(* PR anomaly detection: the training-time feature pipeline                *)
(* (src/training/train.py) and the serving process (src/serving/app.py).   *)
(*                                                                         *)
(* Python / JSON / DataFrame values are tagged pairs <<tag, content>>:     *)
(*   <<"null", 0>>   None / JSON null                                      *)
(*   <<"nan", 0>>    NaN, an empty CSV cell as pandas.read_csv yields it   *)
(*   <<"num", n>>    a number (integer-valued)                             *)
(*   <<"str", s>>    a string                                              *)
(*   <<"list", q>>   a list                                                *)
(*   <<"obj", d>>    a dict / JSON object, d a function from its keys      *)
(*   <<"artefact", a>>  the loaded artefact dict                           *)
(* Scores and thresholds are integers counted in units of 1e-9.            *)
(***************************************************************************)
EXTENDS Integers, Sequences, FiniteSets, TLC

VARIABLES
    \* serving process (app.py)
    file,          \* is MODEL_PATH on disk: "absent" | "present"
    _artefact,     \* module-level singleton, None until loaded
    loads,         \* number of joblib.load calls made so far
    assigns,       \* number of assignments to _artefact made so far
    procs,         \* position and locals of create_app and each handler thread
    nreq,          \* requests accepted so far
    \* feature pipeline (train.py engineer_features, app.py _engineer_row)
    df,            \* training DataFrame, a sequence of rows
    X,             \* feature matrix returned by engineer_features
    encoders,      \* fitted LabelEncoders, column -> classes_
    feature_cols,  \* column order recorded in the artefact
    fitted,        \* the encoders as they were when fitting returned
    row,           \* last payload given to _engineer_row
    vec,           \* what _engineer_row returned for it
    \* scoring (_score_items)
    artefact,      \* the artefact handed to _score_items
    items,         \* the batch
    results,       \* the returned list
    outcome,       \* "pending" | "returned" | "raised"
    trace          \* per item, the locals of the loop body

vars == <<file, _artefact, loads, assigns, procs, nreq,
          df, X, encoders, feature_cols, fitted, row, vec,
          artefact, items, results, outcome, trace>>

servingVars == <<file, _artefact, loads, assigns, procs, nreq>>
featureVars == <<df, X, encoders, feature_cols, fitted, row, vec>>
scoringVars == <<artefact, items, results, outcome, trace>>

-----------------------------------------------------------------------------
(* Bounds *)

MaxRows == 2    \* rows of the training DataFrame
MaxBatch == 2    \* items of a scored batch
MaxRequests == 2    \* requests the serving process accepts
MaxThreshold == 2   \* thresholds range over -MaxThreshold..MaxThreshold
NThreads    == 2    \* handler threads of the serving process

-----------------------------------------------------------------------------
(* Values *)

None == <<"null", 0>>
NaN == <<"nan", 0>>
Num(n) == <<"num", n>>
Str(s) == <<"str", s>>
List(q) == <<"list", q>>
Obj(d) == <<"obj", d>>

\* Python truthiness, as used by `x or default`
Truthy(v) ==
    CASE v[1] = "null" -> FALSE
      [] v[1] = "num"  -> v[2] # 0
      [] v[1] = "str"  -> v[2] # ""
      [] v[1] = "list" -> Len(v[2]) > 0
      [] v[1] = "obj"  -> DOMAIN v[2] # {}
      [] OTHER         -> TRUE          \* float('nan') is truthy

\* a or b
Or(a, b) == IF Truthy(a) THEN a ELSE b

\* dict.get(key, default)
Get(d, key, default) == IF key \in DOMAIN d THEN d[key] ELSE default

\* The strings of the model in code-point order (the order of sorted() and
\* numpy.unique on str), with their lengths.
StrOrder == << "", "0", "2024-01-01", "2024-03-15", "3", "7", "A", "B",
               "C", "__UNKNOWN__", "abc", "pen" >>

StrLen(s) ==
    CASE s = ""            -> 0
      [] s = "0"           -> 1
      [] s = "3"           -> 1
      [] s = "7"           -> 1
      [] s = "A"           -> 1
      [] s = "B"           -> 1
      [] s = "C"           -> 1
      [] s = "abc"         -> 3
      [] s = "pen"         -> 3
      [] s = "2024-01-01"  -> 10
      [] s = "2024-03-15"  -> 10
      [] s = "__UNKNOWN__" -> 11

Rank(s) == CHOOSE i \in 1..Len(StrOrder) : StrOrder[i] = s

\* str(n) for the integers of the model
IntStr(n) ==
    CASE n = 0 -> "0"
      [] n = 3 -> "3"
      [] n = 7 -> "7"

\* str(v); lists and dicts print as their repr, which is no string of StrOrder
PyStr(v) ==
    CASE v[1] = "str"  -> v[2]
      [] v[1] = "num"  -> IntStr(v[2])
      [] v[1] = "null" -> "None"
      [] v[1] = "nan"  -> "nan"
      [] OTHER         -> "<repr>"

\* float(v): <<"ok", n>>, or the exception float() raises
PyFloat(v) ==
    CASE v[1] = "num" -> <<"ok", v[2]>>
      [] v[1] = "str" ->
            CASE v[2] = "0" -> <<"ok", 0>>
              [] v[2] = "3" -> <<"ok", 3>>
              [] v[2] = "7" -> <<"ok", 7>>
              [] OTHER      -> <<"ValueError", 0>>
      [] OTHER -> <<"TypeError", 0>>

\* pandas.to_datetime(v, errors="coerce"): <<dayofweek, month>> or NaT
NaT == <<-1, -1>>
ToDatetime(v) ==
    CASE v[1] = "str" ->
            CASE v[2] = "2024-03-15" -> <<4, 3>>  \* a Friday in March
              [] v[2] = "2024-01-01" -> <<0, 1>>  \* a Monday in January
              [] OTHER               -> NaT
      [] v[1] = "num" -> <<3, 1>>   \* nanoseconds after Thursday 1970-01-01
      [] OTHER -> NaT

-----------------------------------------------------------------------------
(* Feature columns: train.py 86-97, app.py 70-81 *)

CATEGORICAL_FEATURES ==
    << "pr_type", "company_code", "plant", "purchasing_group",
       "material_group", "unit", "currency",
       "gl_account", "cost_center", "wbs_element", "profit_center" >>

NUMERIC_FEATURES ==
    << "quantity", "net_price", "day_of_week", "month", "text_length" >>

\* col + "_enc"
EncCol(col) ==
    CASE col = "pr_type"          -> "pr_type_enc"
      [] col = "company_code"     -> "company_code_enc"
      [] col = "plant"            -> "plant_enc"
      [] col = "purchasing_group" -> "purchasing_group_enc"
      [] col = "material_group"   -> "material_group_enc"
      [] col = "unit"             -> "unit_enc"
      [] col = "currency"         -> "currency_enc"
      [] col = "gl_account"       -> "gl_account_enc"
      [] col = "cost_center"      -> "cost_center_enc"
      [] col = "wbs_element"      -> "wbs_element_enc"
      [] col = "profit_center"    -> "profit_center_enc"

CatCols == { CATEGORICAL_FEATURES[i] : i \in 1..Len(CATEGORICAL_FEATURES) }

\* [c + "_enc" for c in CATEGORICAL_FEATURES] + NUMERIC_FEATURES
FeatureCols ==
    [ i \in 1..Len(CATEGORICAL_FEATURES) |-> EncCol(CATEGORICAL_FEATURES[i]) ]
        \o NUMERIC_FEATURES

-----------------------------------------------------------------------------
(* sklearn LabelEncoder, as train.py and app.py use it *)

\* the elements of a set of strings as a sequence in ascending order
SortedSeq(S) ==
    [ i \in 1..Cardinality(S) |->
        CHOOSE s \in S : Cardinality({ t \in S : Rank(t) < Rank(s) }) = i - 1 ]

\* position of val in classes_, counted from 0
IndexIn(classes, val) == (CHOOSE i \in 1..Len(classes) : classes[i] = val) - 1

InClasses(classes, val) == \E i \in 1..Len(classes) : classes[i] = val

\* the distinct values of a column in the order of their first occurrence
LabelFitFirstSeen(column) ==
    LET S == { column[i] : i \in 1..Len(column) }
        First(s) == CHOOSE i \in 1..Len(column) :
                        column[i] = s /\ \A j \in 1..(i - 1) : column[j] # s
    IN  [ n \in 1..Cardinality(S) |->
            CHOOSE s \in S :
                Cardinality({ t \in S : First(t) < First(s) }) = n - 1 ]

\* le.fit(column): classes_ = numpy.unique(column), sorted ascending
LabelFit(column) == SortedSeq({ column[i] : i \in 1..Len(column) })

\* le.transform([val])[0] for a val of classes_
LabelTransform(classes, val) == IndexIn(classes, val)

-----------------------------------------------------------------------------
(* train.py engineer_features *)

\* df[col].fillna("__UNKNOWN__").astype(str)
FillnaStr(v) == IF v = NaN THEN "__UNKNOWN__" ELSE PyStr(v)

StrColumn(d, col) == [ i \in 1..Len(d) |-> FillnaStr(d[i][col]) ]

\* df["short_text"].fillna("").str.len()
TextLength(v) ==
    CASE v = NaN      -> Num(0)
      [] v[1] = "str" -> Num(StrLen(v[2]))
      [] OTHER        -> NaN

\* the engineered column c of row i
TrainCell(d, i, c) ==
    CASE c = "day_of_week" -> Num(ToDatetime(d[i].pr_date)[1])
      [] c = "month"       -> Num(ToDatetime(d[i].pr_date)[2])
      [] c = "text_length" -> TextLength(d[i].short_text)
      [] c = "quantity"    -> d[i].quantity
      [] c = "net_price"   -> d[i].net_price
      [] OTHER ->
            LET col == CHOOSE cc \in CatCols : EncCol(cc) = c
            IN  Num(LabelTransform(LabelFit(StrColumn(d, col)),
                                   FillnaStr(d[i][col])))

\* df[feature_cols]
engineer_features_X(d) ==
    [ i \in 1..Len(d) |->
        [ k \in 1..Len(FeatureCols) |-> TrainCell(d, i, FeatureCols[k]) ] ]

engineer_features_encoders(d) ==
    [ col \in CatCols |-> LabelFit(StrColumn(d, col)) ]

-----------------------------------------------------------------------------
(* app.py _engineer_row *)

UNKNOWN == Str("__UNKNOWN__")

\* str(row.get(col, "__UNKNOWN__") or "__UNKNOWN__")
CatVal(d, col) == PyStr(Or(Get(d, col, UNKNOWN), UNKNOWN))

\* an encoder that mints the next free code for a value it has not seen
EncodeCatMinting(encs, d, col) ==
    IF col \in DOMAIN encs
    THEN IF InClasses(encs[col], CatVal(d, col))
         THEN LabelTransform(encs[col], CatVal(d, col))
         ELSE Len(encs[col])
    ELSE -1

\* lines 97-104
EncodeCat(encs, d, col) ==
    IF col \in DOMAIN encs
    THEN IF InClasses(encs[col], CatVal(d, col))
         THEN LabelTransform(encs[col], CatVal(d, col))
         ELSE -1
    ELSE -1

\* float(row.get(key, 0) or 0)
FloatField(d, key) == PyFloat(Or(Get(d, key, Num(0)), Num(0)))

\* len(str(row.get("short_text", "") or ""))
TextLen(d) == StrLen(PyStr(Or(Get(d, "short_text", Str("")), Str(""))))

\* the keys of the record dict of lines 93-114
ServeKeys ==
    { EncCol(cc) : cc \in CatCols } \cup
    { "day_of_week", "month", "quantity", "net_price", "text_length" }

\* record[c], when no conversion raises
ServeCell(d, art, c) ==
    CASE c = "day_of_week" -> Num(ToDatetime(Get(d, "pr_date", None))[1])
      [] c = "month"       -> Num(ToDatetime(Get(d, "pr_date", None))[2])
      [] c = "quantity"    -> Num(FloatField(d, "quantity")[2])
      [] c = "net_price"   -> Num(FloatField(d, "net_price")[2])
      [] c = "text_length" -> Num(TextLen(d))
      [] OTHER ->
            LET col == CHOOSE cc \in CatCols : EncCol(cc) = c
            IN  Num(EncodeCat(art.encoders, d, col))

\* <<"ok", vector>> or <<exception, <<>> >>
_engineer_row(r, art) ==
    IF r[1] # "obj" THEN <<"AttributeError", <<>> >>      \* no .get
    ELSE LET d == r[2] IN
         IF FloatField(d, "quantity")[1] # "ok"
         THEN << FloatField(d, "quantity")[1], <<>> >>
         ELSE IF FloatField(d, "net_price")[1] # "ok"
         THEN << FloatField(d, "net_price")[1], <<>> >>
         ELSE IF \E k \in 1..Len(art.feature_cols) :
                    art.feature_cols[k] \notin ServeKeys
         THEN <<"KeyError", <<>> >>
         ELSE <<"ok", [ k \in 1..Len(art.feature_cols) |->
                          ServeCell(d, art, art.feature_cols[k]) ] >>

-----------------------------------------------------------------------------
(* app.py _score_items *)

Eps == 1                       \* 1e-9, the unit of scores and thresholds

Bool(b) == <<"bool", b>>

Abs(n) == IF n < 0 THEN -n ELSE n

\* position of a column in an artefact's column order
ArtIdx(art, c) ==
    CHOOSE k \in 1..Len(art.feature_cols) : art.feature_cols[k] = c

\* model.decision_function(X)[0]: the fitted forest is a fixed function of
\* the feature vector; the models drawn here read the quantity feature
decision_function(model, v) == model[v[ArtIdx([feature_cols |-> FeatureCols], "quantity")][2]]

\* model.predict(X)[0]: -1 below the forest's own offset, 1 otherwise
predict(model, v) == IF decision_function(model, v) < 0 THEN -1 ELSE 1

\* round(raw_score, 6), in units of 1e-9
Round6(n) ==
    LET q == n \div 1000
        r == n % 1000
    IN  IF r < 500 THEN q * 1000
        ELSE IF r > 500 THEN (q + 1) * 1000
        ELSE IF q % 2 = 0 THEN q * 1000 ELSE (q + 1) * 1000

\* round(n / d, 4), in units of 1e-4
Round4(n, d) ==
    LET q == (n * 10000) \div d
        r == (n * 10000) % d
    IN  IF 2 * r < d THEN q
        ELSE IF 2 * r > d THEN q + 1
        ELSE IF q % 2 = 0 THEN q ELSE q + 1

\* numpy.clip(n / d, 0, 1) for d > 0, as a fraction <<numerator, denominator>>
Clip01(n, d) ==
    IF n <= 0 THEN <<0, 1>>
    ELSE IF n >= d THEN <<1, 1>>
    ELSE <<n, d>>

\* line 136: <<"ok", fraction>> or the exception of the division
Confidence(threshold, raw_score) ==
    LET den == Abs(threshold + Eps)
    IN  IF den = 0 THEN <<"ZeroDivisionError", <<0, 1>> >>
        ELSE <<"ok", Clip01(threshold - raw_score, den)>>

\* the try block, lines 132-136: the locals it sets and the exception, if any
TryBlock(item, art) ==
    LET e == _engineer_row(item, art) IN
    IF e[1] # "ok"
    THEN [ exc |-> e[1], raw_score |-> None, prediction |-> None,
           is_anomaly |-> None, confidence |-> <<0, 1>> ]
    ELSE LET raw == decision_function(art.model, e[2])
             c   == Confidence(art.threshold, raw)
         IN  [ exc |-> IF c[1] = "ok" THEN "none" ELSE c[1],
               raw_score |-> Num(raw),
               prediction |-> Num(predict(art.model, e[2])),
               is_anomaly |-> Bool(raw < art.threshold),
               confidence |-> c[2] ]

\* lines 138-145
OkResult(item, t) ==
    [ pr_number   |-> Get(item[2], "pr_number", None),
      item_number |-> Get(item[2], "item_number", None),
      anomaly     |-> t.is_anomaly,
      score       |-> Num(Round6(t.raw_score[2])),
      confidence  |-> Num(Round4(t.confidence[1], t.confidence[2])),
      label       |-> IF t.is_anomaly[2] THEN "ANOMALY" ELSE "NORMAL" ]

\* lines 148-156
ErrorResult(item, t) ==
    [ pr_number   |-> Get(item[2], "pr_number", None),
      item_number |-> Get(item[2], "item_number", None),
      anomaly     |-> None,
      score       |-> None,
      confidence  |-> None,
      label       |-> "ERROR",
      error       |-> t.exc ]

\* item.get(...) in the except block raises AttributeError for a non-dict
HandlerRaises(item) == item[1] # "obj"

RECURSIVE ScoreLoop(_, _, _, _, _)
ScoreLoop(its, art, i, res, trc) ==
    IF i > Len(its)
    THEN [ outcome |-> "returned", results |-> res, trace |-> trc ]
    ELSE LET t == TryBlock(its[i], art) IN
         IF t.exc = "none"
         THEN ScoreLoop(its, art, i + 1,
                        Append(res, OkResult(its[i], t)), Append(trc, t))
         ELSE IF HandlerRaises(its[i])
         THEN [ outcome |-> "raised", results |-> <<>>, trace |-> Append(trc, t) ]
         ELSE ScoreLoop(its, art, i + 1,
                        Append(res, ErrorResult(its[i], t)), Append(trc, t))

_score_items(its, art) == ScoreLoop(its, art, 1, <<>>, <<>>)

-----------------------------------------------------------------------------
(* Inputs of the feature pipeline *)

\* a DataFrame row as load_data yields it: every required column is there
BaseRow ==
    [ pr_type |-> Str("A"), company_code |-> Str("A"), plant |-> Str("A"),
      purchasing_group |-> Str("A"), material_group |-> Str("A"),
      unit |-> Str("A"), currency |-> Str("A"), gl_account |-> Str("A"),
      cost_center |-> Str("A"), wbs_element |-> Str("A"),
      profit_center |-> Str("A"),
      pr_date |-> Str("2024-03-15"), short_text |-> Str("pen"),
      quantity |-> Num(3), net_price |-> Num(7) ]

CatCells == { NaN, Str("A"), Str("B"), Num(0), Num(7) }
NumCells  == { NaN, Num(0), Num(3) }
DateCells == { NaN, Str("2024-01-01"), Str("abc") }
TextCells == { NaN, Str("pen") }

\* rows that differ from BaseRow in one column
TrainRows ==
    { [BaseRow EXCEPT !.pr_type = c] : c \in CatCells }
    \cup { [BaseRow EXCEPT !.wbs_element = NaN] }
    \cup { [BaseRow EXCEPT !.quantity = q] : q \in NumCells }
    \cup { [BaseRow EXCEPT !.pr_date = d] : d \in DateCells }
    \cup { [BaseRow EXCEPT !.short_text = t] : t \in TextCells }

\* read_csv gives a column one dtype: all numbers, or strings and NaN
OneDtype(d, col) ==
    \/ \A i \in 1..Len(d) : d[i][col][1] = "num"
    \/ \A i \in 1..Len(d) : d[i][col][1] # "num"

DataFrames ==
    { d \in UNION { [1..n -> TrainRows] : n \in 1..MaxRows } :
          OneDtype(d, "pr_type") }

\* a training row sent as a request item: a NaN cell is sent as null, or
\* its key is left out
RowAsItem(r, nullAs) ==
    Obj([ k \in { kk \in DOMAIN r : r[kk] # NaN \/ nullAs = "null" } |->
            IF r[k] = NaN THEN None ELSE r[k] ])

\* request items that need not come from the training data
OtherItems ==
    { Obj([BaseRow EXCEPT !.pr_type = c]) :
          c \in { None, Str(""), Str("A"), Str("B"), Str("C"), UNKNOWN,
                  Num(0), Num(7) } }
    \cup { Obj([BaseRow EXCEPT !.quantity = Str("abc")]),
           Obj([BaseRow EXCEPT !.quantity = Str("3")]),
           Obj([ k \in {"plant"} |-> Str("B") ]),
           Obj(<<>>),
           Num(7) }

-----------------------------------------------------------------------------
(* Inputs of scoring *)

MaxScore == 3

Scores == (-MaxScore..MaxScore) \cup {-1500}

Thresholds == -MaxThreshold..MaxThreshold

\* the quantity values the items below produce
QuantityKeys == {0, 3}

Models == [QuantityKeys -> Scores]

\* the training data behind the served artefact
ServedDf == << BaseRow, [BaseRow EXCEPT !.pr_type = Str("B")] >>

Artefacts ==
    { [ model |-> m,
        encoders |-> engineer_features_encoders(ServedDf),
        feature_cols |-> FeatureCols,
        threshold |-> t ] : m \in Models, t \in Thresholds }

ScoredItems ==
    { Obj([ pr_number |-> Str("7"), item_number |-> n, quantity |-> q ]) :
          n \in { Str("A"), Str("B") }, q \in { Num(3), Str("abc") } }
    \cup { Obj([ pr_number |-> Str("7"), item_number |-> n ]) :
               n \in { Str("A"), Str("B") } }
    \cup { Num(7), Str("abc") }

Batches == UNION { [1..n -> ScoredItems] : n \in 1..MaxBatch }

-----------------------------------------------------------------------------
(* The serving process: create_app, _load_model, health, predict *)

Main == 0                   \* the thread that runs create_app
Threads == 1..NThreads         \* the threads that run request handlers

\* what joblib.load returns: the artefact training saved
ServedArtefact ==
    [ model |-> [ q \in QuantityKeys |-> IF q = 0 THEN 2 ELSE -3 ],
      encoders |-> engineer_features_encoders(ServedDf),
      feature_cols |-> FeatureCols,
      threshold |-> -2 ]

GoodItem == Obj([ pr_number |-> Str("7"), item_number |-> Str("A"),
                  quantity |-> Num(3) ])
BadItem == Obj([ pr_number |-> Str("7"), item_number |-> Str("B"),
                  quantity |-> Str("abc") ])

\* what request.get_json(force=True, silent=True) may return; None stands
\* for an absent body, a body that is not JSON, and the JSON null
PredictPayloads ==
    { None, Num(7), Str("abc"), Str("items"),
      List(<<Num(7)>>), List(<<Str("items")>>),
      GoodItem,
      Obj([ items |-> Str("abc") ]),
      Obj([ items |-> List(<<>>) ]),
      Obj([ items |-> List(<<GoodItem, BadItem>>) ]),
      Obj([ items |-> List(<<Num(7)>>) ]) }

\* "items" in s, for the strings above
ContainsItems(s) == s = "items"

\* `"items" in payload`: <<"ok", bool>> or the exception
ItemsIn(payload) ==
    CASE payload[1] = "obj"  -> <<"ok", "items" \in DOMAIN payload[2]>>
      [] payload[1] = "list" ->
            <<"ok", \E i \in 1..Len(payload[2]) : payload[2][i] = Str("items")>>
      [] payload[1] = "str"  -> <<"ok", ContainsItems(payload[2])>>
      [] OTHER               -> <<"TypeError", FALSE>>

\* lines 241-254 of predict: <<"respond", status, body>> when the handler
\* answers before it reaches the model, <<"raise", exception, <<>> >> when
\* a line raises, <<"go", 0, items>> when it goes on to _load_model
Validate(payload) ==
    IF payload = None
    THEN <<"respond", 400, [error |-> "Invalid or missing JSON body"]>>
    ELSE IF ItemsIn(payload)[1] # "ok"
    THEN <<"raise", ItemsIn(payload)[1], <<>> >>
    ELSE IF ItemsIn(payload)[2]
    THEN IF payload[1] # "obj"
         THEN <<"raise", "TypeError", <<>> >>           \* payload["items"]
         ELSE IF payload[2]["items"][1] # "list"
         THEN <<"respond", 400, [error |-> "'items' must be a list"]>>
         ELSE IF Len(payload[2]["items"][2]) = 0
         THEN <<"respond", 400, [error |-> "Empty items list"]>>
         ELSE <<"go", 0, payload[2]["items"][2]>>
    ELSE <<"go", 0, <<payload>> >>

\* except clauses that answer every exception with 500
predict_except_all500(exc) ==
    <<500, [error |-> "Internal server error", detail |-> exc]>>

\* the except clauses of predict, lines 261-266
predict_except(exc) ==
    IF exc = "FileNotFoundError"
    THEN <<503, [error |-> "Model not loaded", detail |-> exc]>>
    ELSE <<500, [error |-> "Internal server error", detail |-> exc]>>

\* the except clause of health, lines 187-188
health_except(exc) == <<503, [status |-> "error", detail |-> exc]>>

\* the except clause of create_app, lines 169-170: where create_app goes on
create_app_except(exc) ==
    IF exc = "FileNotFoundError" THEN "serving" ELSE "crashed"

Idle ==
    [ pc |-> "idle", caller |-> "none", payload |-> None, its |-> <<>>,
      tmp |-> None, status |-> 0, body |-> <<>>, calledLoad |-> FALSE,
      fileAtStart |-> "absent" ]

\* a proc leaves _load_model with an exception
Raise(p, exc) ==
    CASE procs[p].caller = "create_app" ->
            [procs[p] EXCEPT !.pc = create_app_except(exc)]
      [] procs[p].caller = "health" ->
            [procs[p] EXCEPT !.pc = "done",
                             !.status = health_except(exc)[1],
                             !.body = health_except(exc)[2]]
      [] procs[p].caller = "predict" ->
            [procs[p] EXCEPT !.pc = "done",
                             !.status = predict_except(exc)[1],
                             !.body = predict_except(exc)[2]]

InitFeaturesIdle ==
    /\ df = <<>>
    /\ X = <<>>
    /\ encoders = <<>>
    /\ feature_cols = <<>>
    /\ fitted = <<>>
    /\ row = None
    /\ vec = <<"none", <<>> >>

InitScoringIdle ==
    /\ artefact = None
    /\ items = <<>>
    /\ results = <<>>
    /\ outcome = "pending"
    /\ trace = <<>>

InitServer ==
    /\ file \in {"absent", "present"}
    /\ _artefact = None
    /\ loads = 0
    /\ assigns = 0
    /\ procs = [ p \in {Main} \cup Threads |->
                   IF p = Main THEN [Idle EXCEPT !.pc = "start"] ELSE Idle ]
    /\ nreq = 0

\* create_app, lines 164-168: the preload calls _load_model
create_app ==
    /\ procs[Main].pc = "start"
    /\ procs' = [procs EXCEPT ![Main] =
                    [@ EXCEPT !.pc = "check", !.caller = "create_app",
                              !.calledLoad = TRUE, !.fileAtStart = file]]
    /\ UNCHANGED <<file, _artefact, loads, assigns, nreq>>
    /\ UNCHANGED <<featureVars, scoringVars>>

\* _load_model line 55: if _artefact is None
load_check(p) ==
    /\ procs[p].pc = "check"
    /\ procs' = [procs EXCEPT ![p].pc =
                    IF _artefact = None THEN "exists" ELSE "return"]
    /\ UNCHANGED <<file, _artefact, loads, assigns, nreq>>
    /\ UNCHANGED <<featureVars, scoringVars>>

\* lines 56-58: if not path.exists(): raise FileNotFoundError
load_exists(p) ==
    /\ procs[p].pc = "exists"
    /\ procs' = [procs EXCEPT ![p] =
                    IF file = "absent"
                    THEN Raise(p, "FileNotFoundError")
                    ELSE [@ EXCEPT !.pc = "load"]]
    /\ UNCHANGED <<file, _artefact, loads, assigns, nreq>>
    /\ UNCHANGED <<featureVars, scoringVars>>

\* line 60, right-hand side: joblib.load(path)
load_joblib(p) ==
    /\ procs[p].pc = "load"
    /\ loads' = loads + 1
    /\ procs' = [procs EXCEPT ![p] =
                    [@ EXCEPT !.pc = "assign",
                              !.tmp = <<"artefact", ServedArtefact>>]]
    /\ UNCHANGED <<file, _artefact, assigns, nreq>>
    /\ UNCHANGED <<featureVars, scoringVars>>

\* line 60, the assignment to the global
load_assign(p) ==
    /\ procs[p].pc = "assign"
    /\ _artefact' = procs[p].tmp
    /\ assigns' = assigns + 1
    /\ procs' = [procs EXCEPT ![p] = [@ EXCEPT !.pc = "return", !.tmp = None]]
    /\ UNCHANGED <<file, loads, nreq>>
    /\ UNCHANGED <<featureVars, scoringVars>>

\* line 66: return _artefact, back in the caller
load_return(p) ==
    /\ procs[p].pc = "return"
    /\ procs' = [procs EXCEPT ![p] =
          CASE @.caller = "create_app" -> [@ EXCEPT !.pc = "serving"]
            [] @.caller = "health" ->
                  [@ EXCEPT !.pc = "done", !.status = 200,
                            !.body = [ status |-> "ok", model_loaded |-> TRUE,
                                       n_features |-> Len(_artefact[2].feature_cols),
                                       threshold |-> _artefact[2].threshold ]]
            [] @.caller = "predict" ->
                  [@ EXCEPT !.pc = "score", !.tmp = _artefact] ]
    /\ UNCHANGED <<file, _artefact, loads, assigns, nreq>>
    /\ UNCHANGED <<featureVars, scoringVars>>

\* the server hands a request to a free thread; the threads are
\* interchangeable, so it is the free thread with the smallest number
Free(t) ==
    /\ procs[Main].pc = "serving"
    /\ procs[t].pc = "idle"
    /\ \A u \in Threads : u < t => procs[u].pc # "idle"

\* a thread takes a GET /v1/health
health(t) ==
    /\ Free(t)
    /\ nreq < MaxRequests
    /\ nreq' = nreq + 1
    /\ procs' = [procs EXCEPT ![t] =
                    [@ EXCEPT !.pc = "check", !.caller = "health",
                              !.calledLoad = TRUE, !.fileAtStart = file]]
    /\ UNCHANGED <<file, _artefact, loads, assigns>>
    /\ UNCHANGED <<featureVars, scoringVars>>

\* a thread takes a POST .../predict and runs lines 241-256
predict_begin(t) ==
    /\ Free(t)
    /\ nreq < MaxRequests
    /\ nreq' = nreq + 1
    /\ \E payload \in PredictPayloads :
          LET v == Validate(payload)
              q == [procs[t] EXCEPT !.caller = "predict", !.payload = payload,
                                    !.fileAtStart = file]
          IN  procs' = [procs EXCEPT ![t] =
                CASE v[1] = "respond" ->
                        [q EXCEPT !.pc = "done", !.status = v[2], !.body = v[3]]
                  [] v[1] = "raise" ->
                        [q EXCEPT !.pc = "done",
                                  !.status = predict_except(v[2])[1],
                                  !.body = predict_except(v[2])[2]]
                  [] v[1] = "go" ->
                        [q EXCEPT !.pc = "check", !.its = v[3],
                                  !.calledLoad = TRUE] ]
    /\ UNCHANGED <<file, _artefact, loads, assigns>>
    /\ UNCHANGED <<featureVars, scoringVars>>

\* lines 257-259: predictions = _score_items(items, artefact); respond
predict_score(t) ==
    /\ procs[t].pc = "score"
    /\ LET r == _score_items(procs[t].its, procs[t].tmp[2])
       IN  procs' = [procs EXCEPT ![t] =
              IF r.outcome = "returned"
              THEN [@ EXCEPT !.pc = "done", !.status = 200, !.tmp = None,
                             !.body = [predictions |-> r.results]]
              ELSE [@ EXCEPT !.pc = "done", !.tmp = None,
                             !.status = predict_except("AttributeError")[1],
                             !.body = predict_except("AttributeError")[2]]]
    /\ UNCHANGED <<file, _artefact, loads, assigns, nreq>>
    /\ UNCHANGED <<featureVars, scoringVars>>

\* the response is sent and the thread is free again
respond(t) ==
    /\ procs[t].pc = "done"
    /\ procs' = [procs EXCEPT ![t] = Idle]
    /\ UNCHANGED <<file, _artefact, loads, assigns, nreq>>
    /\ UNCHANGED <<featureVars, scoringVars>>

\* the environment: the artefact file is put in place
FileAppears ==
    /\ file = "absent"
    /\ file' = "present"
    /\ UNCHANGED <<_artefact, loads, assigns, procs, nreq>>
    /\ UNCHANGED <<featureVars, scoringVars>>

Init ==
    /\ InitServer
    /\ InitFeaturesIdle
    /\ InitScoringIdle

Procs == {Main} \cup Threads

Next ==
    \/ create_app
    \/ \E p \in Procs : load_check(p)
    \/ \E p \in Procs : load_exists(p)
    \/ \E p \in Procs : load_joblib(p)
    \/ \E p \in Procs : load_assign(p)
    \/ \E p \in Procs : load_return(p)
    \/ \E t \in Threads : health(t)
    \/ \E t \in Threads : predict_begin(t)
    \/ \E t \in Threads : predict_score(t)
    \/ \E t \in Threads : respond(t)
    \/ FileAppears

Spec == Init /\ [][Next]_vars

-----------------------------------------------------------------------------
(* Properties of the serving process *)

\* C2: whatever the interleaving of first calls of _load_model, the
\* artefact file is read at most once and _artefact is assigned at most once.
C2_LoadedOnce == loads <= 1 /\ assigns <= 1

\* a body predict has to reject: not a JSON object, `items` not a list, or
\* an empty batch
Rejectable(payload) ==
    \/ payload[1] # "obj"
    \/ /\ "items" \in DOMAIN payload[2]
       /\ \/ payload[2]["items"][1] # "list"
          \/ Len(payload[2]["items"][2]) = 0

\* C5: predict answers every rejectable body with 400 and has not called
\* _load_model when it does.
C5_RejectedBeforeModel ==
    \A t \in Threads :
        (procs[t].pc = "done" /\ procs[t].caller = "predict"
            /\ Rejectable(procs[t].payload)) =>
                procs[t].status = 400 /\ ~procs[t].calledLoad

\* C6: create_app survives a missing artefact file; while the file is
\* missing every health request and every well-formed predict request is
\* answered 503, the predict answer carrying no predictions; a request that
\* starts once the file is there finds the artefact loaded and is not
\* answered 503 (health: 200).
C6_DegradedThenAvailable ==
    /\ procs[Main].pc # "crashed"
    /\ \A t \in Threads :
          procs[t].pc = "done" =>
              /\ (procs[t].caller = "health" /\ file = "absent") =>
                    procs[t].status = 503
              /\ (procs[t].caller = "predict" /\ file = "absent"
                    /\ ~Rejectable(procs[t].payload)) =>
                    /\ procs[t].status = 503
                    /\ "predictions" \notin DOMAIN procs[t].body
              /\ (procs[t].caller = "health" /\ procs[t].fileAtStart = "present") =>
                    procs[t].status = 200 /\ _artefact # None
              /\ (procs[t].caller = "predict" /\ procs[t].fileAtStart = "present"
                    /\ ~Rejectable(procs[t].payload)) =>
                    procs[t].status # 503 /\ _artefact # None
              /\ (procs[t].status = 200 /\ procs[t].caller = "predict") =>
                    "predictions" \in DOMAIN procs[t].body

\* the preload failed, one thread was answered 503 while the file was
\* missing, and after the file appeared another thread was answered 200
C6_Witness ==
    /\ procs[Main].pc = "serving"
    /\ procs[Main].fileAtStart = "absent"
    /\ \E t, u \in Threads :
          /\ procs[t].pc = "done" /\ procs[t].caller = "predict"
          /\ procs[t].payload = GoodItem /\ procs[t].status = 503
          /\ procs[u].pc = "done" /\ procs[u].caller = "health"
          /\ procs[u].fileAtStart = "present" /\ procs[u].status = 200
    /\ loads = 1

-----------------------------------------------------------------------------
(* The feature pipeline as a state machine *)

InitFeatures ==
    /\ df \in DataFrames
    /\ X = <<>>
    /\ encoders = <<>>
    /\ feature_cols = <<>>
    /\ fitted = <<>>
    /\ row = None
    /\ vec = <<"none", <<>> >>
    /\ file = "absent" /\ _artefact = None /\ loads = 0 /\ assigns = 0
    /\ procs = <<>> /\ nreq = 0
    /\ InitScoringIdle

\* X, encoders = engineer_features(df); feature_cols = list(X.columns)
engineer_features ==
    /\ feature_cols = <<>>
    /\ X' = engineer_features_X(df)
    /\ encoders' = engineer_features_encoders(df)
    /\ feature_cols' = FeatureCols
    /\ fitted' = engineer_features_encoders(df)
    /\ UNCHANGED <<df, row, vec>>
    /\ UNCHANGED servingVars
    /\ UNCHANGED scoringVars

\* _engineer_row(item, artefact) with the fitted encoders and column order
engineer_row ==
    /\ feature_cols # <<>>
    /\ \E r \in OtherItems \cup
                { RowAsItem(df[i], n) : i \in 1..Len(df), n \in {"null", "absent"} } :
          /\ row' = r
          /\ vec' = _engineer_row(r, [encoders |-> encoders,
                                      feature_cols |-> feature_cols])
    /\ UNCHANGED <<df, X, encoders, feature_cols, fitted>>
    /\ UNCHANGED servingVars
    /\ UNCHANGED scoringVars

NextFeatures == engineer_features \/ engineer_row

SpecFeatures == InitFeatures /\ [][NextFeatures]_vars

-----------------------------------------------------------------------------
(* Properties of the feature pipeline *)

\* position of a column in the artefact's column order
ColIdx(c) == CHOOSE k \in 1..Len(feature_cols) : feature_cols[k] = c

Engineered == feature_cols # <<>> /\ row[1] = "obj" /\ vec[1] # "none"

\* the numeric fields of the last payload convert
NumericsConvert ==
    /\ FloatField(row[2], "quantity")[1] = "ok"
    /\ FloatField(row[2], "net_price")[1] = "ok"

C4_TrainServeIdentical ==
    Engineered =>
        \A i \in 1..Len(df) : \A n \in {"null", "absent"} :
            row = RowAsItem(df[i], n) => vec = <<"ok", X[i]>>

\* C10: fitting gives the distinct values of a column the codes 0, 1, 2, ...
\* in the order of their first occurrence in the column.
C10_FirstSeenCodes ==
    feature_cols # <<>> =>
        \A col \in CatCols : \A i \in 1..Len(df) :
            LET column == StrColumn(df, col)
                first  == CHOOSE j \in 1..i : column[j] = column[i] /\
                              \A h \in 1..(j - 1) : column[h] # column[i]
            IN  X[i][ColIdx(EncCol(col))] =
                    Num(Cardinality({ column[h] : h \in 1..(first - 1) }))

\* C10 amended: fitting gives the distinct string values of a column the
\* codes 0, 1, 2, ... in ascending (code-point) order of the strings,
\* wherever they occur in the column.
C10_SortedCodes ==
    feature_cols # <<>> =>
        \A col \in CatCols : \A i \in 1..Len(df) :
            LET column == StrColumn(df, col)
            IN  X[i][ColIdx(EncCol(col))] =
                    Num(Cardinality({ column[h] : h \in 1..Len(df) } \cap
                                    { StrOrder[r] : r \in 1..(Rank(column[i]) - 1) }))

\* "B" occurs before "A" and still gets the larger code
C10_Witness ==
    /\ feature_cols # <<>>
    /\ Len(df) >= 2
    /\ df[1].pr_type = Str("B")
    /\ df[2].pr_type = Str("A")
    /\ X[1][ColIdx("pr_type_enc")] = Num(1)
    /\ X[2][ColIdx("pr_type_enc")] = Num(0)

-----------------------------------------------------------------------------
(* Scoring as a state machine *)

InitScoring ==
    /\ artefact \in Artefacts
    /\ items \in Batches
    /\ results = <<>>
    /\ outcome = "pending"
    /\ trace = <<>>
    /\ file = "absent" /\ _artefact = None /\ loads = 0 /\ assigns = 0
    /\ procs = <<>> /\ nreq = 0
    /\ InitFeaturesIdle

\* predictions = _score_items(items, artefact)
score_items ==
    /\ outcome = "pending"
    /\ LET r == _score_items(items, artefact)
       IN  /\ outcome' = r.outcome
           /\ results' = r.results
           /\ trace' = r.trace
    /\ UNCHANGED <<artefact, items>>
    /\ UNCHANGED servingVars
    /\ UNCHANGED featureVars

NextScoring == score_items

SpecScoring == InitScoring /\ [][NextScoring]_vars

-----------------------------------------------------------------------------
(* Properties of scoring *)

\* C1: a failure while scoring one item gives that item an ERROR result and
\* nothing else: the call returns, and every other item has the result it
\* gets when scored alone.
C1_BatchIsolation ==
    outcome # "pending" =>
        /\ outcome = "returned"
        /\ Len(results) = Len(items)
        /\ \A i \in 1..Len(items) :
              IF TryBlock(items[i], artefact).exc # "none"
              THEN results[i].label = "ERROR"
              ELSE /\ results[i].label \in {"NORMAL", "ANOMALY"}
                   /\ results[i] = _score_items(<<items[i]>>, artefact).results[1]

\* clamp((threshold - score) / (|threshold| + eps), 0, 1) as a fraction
ClampedConfidence(threshold, score) ==
    Clip01(threshold - score, Abs(threshold) + Eps)

\* C7: for every score that was computed, the confidence is
\* clamp((threshold - score) / (|threshold| + eps), 0, 1): the division does
\* not fail, the value lies in [0, 1], is 0 for score >= threshold and 1 for
\* score <= threshold - (|threshold| + eps).
C7_ConfidenceFormula ==
    \A i \in 1..Len(trace) :
        trace[i].raw_score # None =>
            LET c == trace[i].confidence
                w == ClampedConfidence(artefact.threshold, trace[i].raw_score[2])
                sc == trace[i].raw_score[2]
                th == artefact.threshold
            IN  /\ trace[i].exc = "none"
                /\ c[1] * w[2] = w[1] * c[2]
                /\ 0 <= c[1] /\ c[1] <= c[2]
                /\ sc >= th => c[1] = 0
                /\ sc <= th - (Abs(th) + Eps) => c[1] = c[2]

\* C8: every result is labelled NORMAL, ANOMALY or ERROR; ANOMALY (anomaly
\* true) exactly when the raw score is below the threshold, NORMAL (anomaly
\* false) exactly when the record was scored and its raw score is not below
\* it, ERROR exactly when scoring raised, and then anomaly, score and
\* confidence are null and an error detail is present.
C8_Labels ==
    outcome = "returned" =>
        \A i \in 1..Len(results) :
            LET r == results[i]
                t == trace[i]
                below == t.raw_score # None /\ t.raw_score[2] < artefact.threshold
            IN  /\ r.label \in {"NORMAL", "ANOMALY", "ERROR"}
                /\ r.label = "ANOMALY" <=> below
                /\ r.label = "ANOMALY" => r.anomaly = Bool(TRUE)
                /\ r.label = "NORMAL" <=> (t.exc = "none" /\ ~below)
                /\ r.label = "NORMAL" => r.anomaly = Bool(FALSE)
                /\ r.label = "ERROR" <=> t.exc # "none"
                /\ r.label = "ERROR" =>
                      /\ r.anomaly = None /\ r.score = None /\ r.confidence = None
                      /\ "error" \in DOMAIN r

\* C9: a batch of n items returns n results, the i-th echoing the pr_number
\* and item_number of the i-th item.
C9_OrderPreserved ==
    outcome # "pending" =>
        /\ outcome = "returned"
        /\ Len(results) = Len(items)
        /\ \A i \in 1..Len(items) :
              items[i][1] = "obj" =>
                  /\ results[i].pr_number = Get(items[i][2], "pr_number", None)
                  /\ results[i].item_number = Get(items[i][2], "item_number", None)

====
